---- MODULE Spec2Model ----
(***************************************************************************)
(* FundSight (src/app.py): the NAV alignment / windowing / normalisation / *)
(* period-return core and the script that drives it.                       *)
(*                                                                         *)
(* Dates are the integers 1..MaxDate (0 is a date before every             *)
(* observation).  A float is a pair <<n, d>> with d >= 0 in lowest terms:  *)
(* <<n, 1>>.. are finite values, <<0, 0>> is NaN (an absent value),        *)
(* <<1, 0>> and <<-1, 0>> are +inf and -inf, so that IEEE division by zero *)
(* and NaN propagation are computed, not assumed.                          *)
(* A pd.Series is a function from its (unique) index dates to floats; a    *)
(* DataFrame is a record of its column labels, its index (a sequence) and  *)
(* its cells.  The feed holds at most MaxObs observations over all funds.   *)
(***************************************************************************)
EXTENDS Integers, Sequences, FiniteSets

VARIABLES pc, full_series, start_date, end_date, combined_full, combined,
          adjust_msg, base_date, norm, returns_df

vars == <<pc, full_series, start_date, end_date, combined_full, combined,
          adjust_msg, base_date, norm, returns_df>>

\* ---------------------------------------------------------------- bounds
MaxDate == 3
MaxVal == 3
MaxObs == 2

Dates == 1..MaxDate

\* selected_names: the funds picked in the sidebar, in selection order
selected_names == <<"A", "B">>

Funds == {selected_names[i] : i \in 1..Len(selected_names)}

\* ---------------------------------------------------------------- floats
NaN == <<0, 0>>

Abs(n) == IF n < 0 THEN -n ELSE n

Sign(n) == IF n < 0 THEN -1 ELSE IF n > 0 THEN 1 ELSE 0

RECURSIVE GCD(_, _)
GCD(a, b) == IF b = 0 THEN a ELSE GCD(b, a % b)

\* the float n/d (d >= 0): 0/0 is NaN, n/0 is +-inf
Rat(n, d) ==
    IF d = 0 THEN <<Sign(n), 0>>
    ELSE LET g == GCD(Abs(n), d) IN <<n \div g, d \div g>>

Num(n) == <<n, 1>>

isna(x) == x = NaN

FDiv(x, y) == Rat(x[1] * y[2] * (IF y[1] < 0 THEN -1 ELSE 1), x[2] * Abs(y[1]))

FMul(x, y) == Rat(x[1] * y[1], x[2] * y[2])

FSub(x, y) == Rat(x[1] * y[2] - y[1] * x[2], x[2] * y[2])

\* round(2): to the nearest hundredth, ties to even; NaN and inf unchanged
Round2(x) ==
    IF x[2] = 0 THEN x
    ELSE LET s == x[1] * 100
             q == s \div x[2]
             r == s % x[2]
             k == IF 2 * r < x[2] THEN q
                  ELSE IF 2 * r > x[2] THEN q + 1
                  ELSE IF q % 2 = 0 THEN q ELSE q + 1
         IN Rat(k, 100)

\* the NAV values of the feed: a number, or NaN when the text does not parse
NavValues == {Num(v) : v \in 0..MaxVal} \cup {NaN}

\* ---------------------------------------------------------------- frames
Min(S) == CHOOSE m \in S : \A x \in S : m <= x

Max(S) == CHOOSE m \in S : \A x \in S : x <= m

RECURSIVE SortedSeq(_)
SortedSeq(S) == IF S = {} THEN <<>>
                ELSE LET m == Min(S) IN <<m>> \o SortedSeq(S \ {m})

Range(s) == {s[i] : i \in 1..Len(s)}

DataFrame(cols, idx, data) == [columns |-> cols, index |-> idx, data |-> data]

empty(df) == Len(df.index) = 0 \/ Len(df.columns) = 0

NoFrame == [columns |-> <<>>, index |-> <<>>, data |-> <<>>]

\* a fund's history: observations on distinct dates
AllSeries ==
    UNION {[D -> NavValues] : D \in {S \in SUBSET Dates : Cardinality(S) <= MaxObs}}

\* the number of observations in the histories of the funds names[1..n]
RECURSIVE TotalObs(_, _, _)
TotalObs(series_dict, names, n) ==
    IF n = 0 THEN 0
    ELSE Cardinality(DOMAIN series_dict[names[n]]) + TotalObs(series_dict, names, n - 1)

\* ---------------------------------------------------------------- helpers
IndexOf(idx, d) == CHOOSE i \in 1..Len(idx) : idx[i] = d

\* the index without dropna(): dates of unparsed values count as observations
dropna_index_keepna(s) == DOMAIN s

\* s.dropna().index
dropna_index(s) == {d \in DOMAIN s : ~isna(s[d])}

\* pd.concat(series_dict, axis=1).sort_index(): outer join on the dates
concat(series_dict) ==
    LET idx == SortedSeq(UNION {DOMAIN series_dict[f] : f \in DOMAIN series_dict})
    IN DataFrame(selected_names, idx,
                 [d \in Range(idx) |-> [f \in Range(selected_names) |->
                     IF d \in DOMAIN series_dict[f]
                     THEN series_dict[f][d] ELSE NaN]])

\* no carry: the cell as concatenated
ffill_cell_nofill(df, i, f) == df.data[df.index[i]][f]

\* one cell of DataFrame.ffill(): the value carried down column f to row i
RECURSIVE ffill_cell(_, _, _)
ffill_cell(df, i, f) ==
    LET v == df.data[df.index[i]][f]
    IN IF ~isna(v) \/ i = 1 THEN v ELSE ffill_cell(df, i - 1, f)

ffill(df) ==
    DataFrame(df.columns, df.index,
              [d \in Range(df.index) |-> [f \in Range(df.columns) |->
                  ffill_cell(df, IndexOf(df.index, d), f)]])

\* a positional-style slice that leaves the end label out
loc_slice_exclusive(df, a, b) ==
    LET idx == SelectSeq(df.index, LAMBDA d : a <= d /\ d < b)
    IN DataFrame(df.columns, idx, [d \in Range(idx) |-> df.data[d]])

\* df.loc[a:b] on a sorted index: label slice, both ends included
loc_slice(df, a, b) ==
    LET idx == SelectSeq(df.index, LAMBDA d : a <= d /\ d <= b)
    IN DataFrame(df.columns, idx, [d \in Range(idx) |-> df.data[d]])

\* the first dates of the series that have a real observation
first_dates(series_dict) ==
    {Min(dropna_index(series_dict[f])) :
        f \in {g \in DOMAIN series_dict : dropna_index(series_dict[g]) # {}}}

\* min() in place of max(): the earliest first date
earliest_common_min(series_dict) == Min(first_dates(series_dict))

earliest_common(series_dict) == Max(first_dates(series_dict))

NoMsg == [text |-> "", date |-> 0]

NoOverlapMsg == [text |-> "No overlapping NAV data after adjusting the start date.",
                 date |-> 0]

AdjustedMsg(d) == [text |-> "Adjusted start date", date |-> d]

\* build_combined without the "earliest common date is after the end" return
build_combined_noguard(series_dict, start, end) ==
    LET full == ffill(concat(series_dict))
        windowed == loc_slice(full, start, end)
    IN IF ~empty(windowed)
       THEN [raised |-> FALSE, full |-> full, df |-> windowed, msg |-> NoMsg]
       ELSE IF first_dates(series_dict) = {}
       THEN [raised |-> TRUE, full |-> full, df |-> NoFrame, msg |-> NoMsg]
       ELSE [raised |-> FALSE, full |-> full,
             df |-> loc_slice(full, earliest_common(series_dict), end),
             msg |-> AdjustedMsg(earliest_common(series_dict))]

\* build_combined: raised is TRUE when the call ends in an exception
build_combined(series_dict, start, end) ==
    LET full == ffill(concat(series_dict))
        windowed == loc_slice(full, start, end)
    IN IF ~empty(windowed)
       THEN [raised |-> FALSE, full |-> full, df |-> windowed, msg |-> NoMsg]
       ELSE IF first_dates(series_dict) = {}
       THEN \* max() of an empty sequence: ValueError
            [raised |-> TRUE, full |-> full, df |-> NoFrame, msg |-> NoMsg]
       ELSE IF earliest_common(series_dict) > end
       THEN [raised |-> FALSE, full |-> full,
             df |-> DataFrame(selected_names, <<>>, <<>>),
             msg |-> NoOverlapMsg]
       ELSE [raised |-> FALSE, full |-> full,
             df |-> loc_slice(full, earliest_common(series_dict), end),
             msg |-> AdjustedMsg(earliest_common(series_dict))]

\* safe_normalise that always divides by the first row
safe_normalise_first(df, base) ==
    IF empty(df) THEN df
    ELSE LET base_vals == df.data[df.index[1]]
         IN DataFrame(df.columns, df.index,
                      [d \in Range(df.index) |-> [f \in Range(df.columns) |->
                          FMul(FDiv(df.data[d][f], base_vals[f]), Num(100))]])

\* safe_normalise
safe_normalise(df, base) ==
    IF empty(df) THEN df
    ELSE LET b == IF base \in Range(df.index) THEN base ELSE df.index[1]
             base_vals == df.data[b]
         IN DataFrame(df.columns, df.index,
                      [d \in Range(df.index) |-> [f \in Range(df.columns) |->
                          FMul(FDiv(df.data[d][f], base_vals[f]), Num(100))]])

\* period_returns that takes price_start from the first row (df.iloc[0])
period_row_first(df, start) ==
    IF start < df.index[1]
    THEN [f \in Range(df.columns) |-> NaN]
    ELSE LET latest == df.data[df.index[Len(df.index)]]
             price_start == df.data[df.index[1]]
         IN [f \in Range(df.columns) |->
                Round2(FMul(FSub(FDiv(latest[f], price_start[f]), Num(1)), Num(100)))]

\* period_returns without the "start < df.index[0]" branch: the first row
\* stands in for a missing anchor row
period_row_clamp(df, start) ==
    LET latest == df.data[df.index[Len(df.index)]]
        sel == SelectSeq(df.index, LAMBDA d : d <= start)
        price_start == IF Len(sel) = 0 THEN df.data[df.index[1]]
                       ELSE df.data[sel[Len(sel)]]
    IN [f \in Range(df.columns) |->
           Round2(FMul(FSub(FDiv(latest[f], price_start[f]), Num(1)), Num(100)))]

\* one iteration of the loop of period_returns: the row stored under a label
period_row(df, start) ==
    IF start < df.index[1]
    THEN [f \in Range(df.columns) |-> NaN]
    ELSE LET latest == df.data[df.index[Len(df.index)]]
             sel == SelectSeq(df.index, LAMBDA d : d <= start)
             price_start == df.data[sel[Len(sel)]]
         IN [f \in Range(df.columns) |->
                Round2(FMul(FSub(FDiv(latest[f], price_start[f]), Num(1)), Num(100)))]

\* period_returns; periods is a sequence of <<label, start>>
period_returns(df, periods) ==
    LET labels == [i \in 1..Len(periods) |-> periods[i][1]]
    IN IF empty(df)
       THEN [columns |-> labels, index |-> <<>>, data |-> <<>>]
       ELSE [columns |-> df.columns, index |-> labels,
             data |-> [l \in Range(labels) |->
                 period_row(df, periods[Max({i \in 1..Len(periods) :
                                                periods[i][1] = l})][2])]]

\* the lookback anchors of the analytics tab: dates up to the latest row,
\* possibly before the first one; each label is named after its anchor
periods_of(df) ==
    [i \in 1..(df.index[Len(df.index)] + 1) |-> <<i - 1, i - 1>>]

\* the last row in place of the first
effective_start_last(df) == df.index[Len(df.index)]

\* the reference date the script passes to safe_normalise
effective_start(df) == df.index[1]

\* ---------------------------------------------------------------- script
Init ==
    /\ pc = "start"
    /\ full_series = [f \in Funds |-> <<>>]
    /\ start_date = 1
    /\ end_date = 1
    /\ combined_full = NoFrame
    /\ combined = NoFrame
    /\ adjust_msg = NoMsg
    /\ base_date = 0
    /\ norm = NoFrame
    /\ returns_df = NoFrame

\* sidebar dates and the NAV histories of the selected funds
Fetch ==
    /\ pc = "start"
    /\ \E sd \in [Funds -> AllSeries], s \in Dates, e \in Dates :
          /\ TotalObs(sd, selected_names, Len(selected_names)) <= MaxObs
          /\ s <= e
          /\ full_series' = sd
          /\ start_date' = s
          /\ end_date' = e
    /\ pc' = "fetched"
    /\ UNCHANGED <<combined_full, combined, adjust_msg, base_date, norm, returns_df>>

\* every selected fund is empty: warning and st.stop()
StopAllEmpty ==
    /\ pc = "fetched"
    /\ \A f \in Funds : DOMAIN full_series[f] = {}
    /\ pc' = "stop_all_empty"
    /\ UNCHANGED <<full_series, start_date, end_date, combined_full, combined,
                   adjust_msg, base_date, norm, returns_df>>

CallBuildCombined ==
    /\ pc = "fetched"
    /\ ~(\A f \in Funds : DOMAIN full_series[f] = {})
    /\ LET r == build_combined(full_series, start_date, end_date)
       IN IF r.raised
          THEN \* the exception ends the run; nothing is assigned
               /\ pc' = "crashed"
               /\ UNCHANGED <<combined_full, combined, adjust_msg>>
          ELSE /\ combined_full' = r.full
               /\ combined' = r.df
               /\ adjust_msg' = r.msg
               /\ pc' = "built"
    /\ UNCHANGED <<full_series, start_date, end_date, base_date, norm, returns_df>>

\* combined is empty: warning and st.stop()
StopNoData ==
    /\ pc = "built"
    /\ empty(combined)
    /\ pc' = "stop_no_data"
    /\ UNCHANGED <<full_series, start_date, end_date, combined_full, combined,
                   adjust_msg, base_date, norm, returns_df>>

Normalise ==
    /\ pc = "built"
    /\ ~empty(combined)
    /\ base_date' = effective_start(combined)
    /\ norm' = safe_normalise(combined, effective_start(combined))
    /\ pc' = "normalised"
    /\ UNCHANGED <<full_series, start_date, end_date, combined_full, combined,
                   adjust_msg, returns_df>>

Analytics ==
    /\ pc = "normalised"
    /\ returns_df' = period_returns(combined, periods_of(combined))
    /\ pc' = "done"
    /\ UNCHANGED <<full_series, start_date, end_date, combined_full, combined,
                   adjust_msg, base_date, norm>>

Next ==
    \/ Fetch
    \/ StopAllEmpty
    \/ CallBuildCombined
    \/ StopNoData
    \/ Normalise
    \/ Analytics

Spec == Init /\ [][Next]_vars

\* safe_normalise applied to a built table with any reference date
CallSafeNormalise ==
    /\ pc = "built"
    /\ \E ref \in Dates :
          /\ base_date' = ref
          /\ norm' = safe_normalise(combined, ref)
    /\ pc' = "normalised_at"
    /\ UNCHANGED <<full_series, start_date, end_date, combined_full, combined,
                   adjust_msg, returns_df>>

NextFn ==
    \/ Fetch
    \/ StopAllEmpty
    \/ CallBuildCombined
    \/ StopNoData
    \/ Normalise
    \/ CallSafeNormalise

SpecFn == Init /\ [][NextFn]_vars

TypeOK == pc \in {"start", "fetched", "stop_all_empty", "crashed", "built",
                  "stop_no_data", "normalised", "normalised_at", "done"}

\* ---------------------------------------------------------------- properties
\* build_combined has returned
Built == pc \in {"built", "stop_no_data", "normalised", "normalised_at", "done"}

\* dates on which fund f has a real (non-absent) observation
RealDates(f) == {d \in DOMAIN full_series[f] : full_series[f][d] # NaN}

FundsWithData == {f \in Funds : RealDates(f) # {}}

FirstReal(f) == CHOOSE d \in RealDates(f) : \A x \in RealDates(f) : d <= x

\* the latest of the per-fund first-observation dates
LatestFirst == CHOOSE d \in {FirstReal(f) : f \in FundsWithData} :
                  \A g \in FundsWithData : FirstReal(g) <= d

\* aligned dates inside [a, b]
AlignedIn(a, b) == {d \in Range(combined_full.index) : a <= d /\ d <= b}

Ascending(idx) == \A i \in 1..Len(idx) : \A j \in 1..Len(idx) : i < j => idx[i] < idx[j]

\* combined is exactly the aligned rows with date in [a, b]
ExactlyRows(a, b) ==
    /\ combined.columns = combined_full.columns
    /\ Range(combined.index) = AlignedIn(a, b)
    /\ Ascending(combined.index)
    /\ \A d \in Range(combined.index) : combined.data[d] = combined_full.data[d]

DifferentFirstDates == Cardinality({FirstReal(f) : f \in FundsWithData}) >= 2

\* C1 as stated: for funds whose first observations fall on different dates,
\* whenever the requested start precedes the latest first-observation date and
\* the end is on or after it, the adjustment is reported and the returned
\* table starts at that latest date.
C1_AsStated ==
    (Built /\ DifferentFirstDates
        /\ start_date < LatestFirst /\ LatestFirst <= end_date)
    => (adjust_msg.text # "" /\ ~empty(combined)
        /\ combined.index[1] = LatestFirst)

\* C1 (amended): for funds whose first observations fall on different dates,
\* whenever no aligned row lies in the requested [start, end] and the end is on
\* or after the latest first-observation date, the adjustment is reported and
\* the returned table's first row is that latest date.
C1_AdjustedStart ==
    (Built /\ DifferentFirstDates
        /\ AlignedIn(start_date, end_date) = {} /\ LatestFirst <= end_date)
    => (adjust_msg.text # "" /\ ~empty(combined)
        /\ combined.index[1] = LatestFirst)

C1_Witness ==
    (Built /\ DifferentFirstDates
        /\ AlignedIn(start_date, end_date) = {} /\ LatestFirst <= end_date
        /\ adjust_msg.date = LatestFirst /\ Len(combined_full.index) >= 2)

\* C2: if at least one aligned row has its date in [start, end], the returned
\* table is exactly those rows (same rows, values and order) and no adjustment
\* is reported.
C2_VerbatimWindow ==
    (Built /\ AlignedIn(start_date, end_date) # {})
    => (adjust_msg.text = "" /\ ExactlyRows(start_date, end_date))

C2_Witness ==
    (Built /\ AlignedIn(start_date, end_date) # {}
        /\ Len(combined.index) >= 1
        /\ Len(combined.index) < Len(combined_full.index)
        /\ \E f \in Funds : combined.data[combined.index[1]][f] # NaN)

\* C3: when no aligned row falls in [start, end], effective_start is the
\* maximum over the funds with a real observation of their earliest real
\* observation date; if effective_start <= end the returned table is exactly
\* the aligned rows in [effective_start, end] and the adjustment is reported
\* with a message naming effective_start.
C3_LatestOfEarliest ==
    (Built /\ AlignedIn(start_date, end_date) = {} /\ FundsWithData # {}
        /\ LatestFirst <= end_date)
    => (adjust_msg.text # "" /\ adjust_msg.date = LatestFirst
        /\ ExactlyRows(LatestFirst, end_date))

C3_Witness ==
    (Built /\ AlignedIn(start_date, end_date) = {} /\ FundsWithData # {}
        /\ LatestFirst <= end_date
        /\ Len(combined.index) >= 1
        /\ Len(combined.index) < Len(combined_full.index)
        /\ \E f \in Funds : \E d \in DOMAIN full_series[f] : full_series[f][d] = NaN)

\* C4 as stated: build_combined, safe_normalise and period_returns always
\* return a table (possibly empty) and an explanatory flag; no input ends the
\* run in an exception.
C4_CoreFunctionsTotal == pc # "crashed"

\* the requested window is empty and the latest first date is after the end
Unrecoverable ==
    /\ AlignedIn(start_date, end_date) = {}
    /\ FundsWithData # {}
    /\ LatestFirst > end_date

\* C5: when the requested slice is empty and effective_start is later than
\* end, build_combined returns zero rows (one column per requested fund) with
\* a non-empty message naming no effective start, and the script's only next
\* step is the terminal "no data" stop: nothing is normalised or rendered.
C5_UnrecoverableStops ==
    [][ /\ (pc = "built" /\ Unrecoverable)
            => /\ Len(combined.index) = 0
               /\ combined.columns = selected_names
               /\ adjust_msg.text # ""
               /\ adjust_msg.date = 0
               /\ pc' = "stop_no_data"
               /\ norm' = NoFrame
               /\ returns_df' = NoFrame
        /\ pc # "stop_no_data" ]_vars

C5_Witness ==
    /\ pc = "stop_no_data"
    /\ Unrecoverable
    /\ Len(combined_full.index) >= 2
    /\ Len(combined.index) = 0
    /\ norm = NoFrame

\* C6 as stated: whenever an adjustment is reported with a non-empty table,
\* every fund column has a non-absent value in the table's first row.
C6_RealDataFromFirstRow ==
    (Built /\ adjust_msg.text # "" /\ ~empty(combined))
    => \A f \in Funds : combined.data[combined.index[1]][f] # NaN

Normalised == pc \in {"normalised", "normalised_at"} /\ ~empty(combined)

\* the row safe_normalise divides by
ReferenceRow ==
    IF base_date \in Range(combined.index) THEN base_date ELSE combined.index[1]

\* C7 as stated: for every reference date that is a row of the table and every
\* fund whose value at that row is present, the normalised value at the
\* reference row is exactly 100.
C7_AsStated ==
    (Normalised /\ base_date \in Range(combined.index))
    => \A f \in Funds :
          combined.data[base_date][f] # NaN => norm.data[base_date][f] = <<100, 1>>

\* C7 (amended): for every reference date that is a row of the table and every
\* fund whose value at that row is present, finite and non-zero, the
\* normalised value at the reference row is exactly 100.
C7_NormaliseTo100 ==
    (Normalised /\ base_date \in Range(combined.index))
    => \A f \in Funds :
          (combined.data[base_date][f][2] # 0 /\ combined.data[base_date][f][1] # 0)
          => norm.data[base_date][f] = <<100, 1>>

C7_Witness ==
    /\ pc = "normalised_at"
    /\ ~empty(combined)
    /\ base_date \in Range(combined.index)
    /\ base_date # combined.index[1]
    /\ \E f \in Funds :
          /\ combined.data[base_date][f][1] > 0
          /\ combined.data[combined.index[1]][f][1] > 0
          /\ combined.data[base_date][f] # combined.data[combined.index[1]][f]
          /\ norm.data[base_date][f] = <<100, 1>>

\* C8: if a fund's value at the reference row (the given date, or the first
\* row when that date is not a row) is absent, every row of that fund's
\* normalised column is absent; the columns of the funds with a present,
\* non-zero reference value hold value * 100 / reference; and the script's
\* reference row is always the first row of the windowed table.
C8_AbsentReference ==
    /\ Normalised =>
          \A f \in Funds : \A d \in Range(combined.index) :
             LET b == combined.data[ReferenceRow][f]
                 v == combined.data[d][f]
                 n == norm.data[d][f]
             IN /\ b = NaN => n = NaN
                /\ (b # NaN /\ b[1] # 0) =>
                      IF v = NaN THEN n = NaN
                      ELSE n[2] > 0 /\ n[1] * v[2] * b[1] = 100 * v[1] * b[2] * n[2]
    /\ (pc \in {"normalised", "done"}) =>
          (base_date = combined.index[1] /\ ReferenceRow = combined.index[1])

C8_Witness ==
    /\ pc = "normalised"
    /\ Len(combined.index) >= 2
    /\ \E f \in Funds : \E g \in Funds :
          /\ combined.data[combined.index[1]][f] = NaN
          /\ combined.data[combined.index[Len(combined.index)]][f][1] > 0
          /\ norm.data[combined.index[Len(combined.index)]][f] = NaN
          /\ combined.data[combined.index[1]][g][1] > 0
          /\ norm.data[combined.index[Len(combined.index)]][g][1] > 0

\* real observation dates of f on or before d
RealUpTo(f, d) == {x \in RealDates(f) : x <= d}

\* C9: the aligned table's rows are the ascending, duplicate-free union of all
\* input dates; each cell at date d for fund f is f's real observation at the
\* latest date <= d that has one, and is absent when there is none (no
\* back-fill before the first real observation).
C9_ForwardFillOnly ==
    Built =>
       /\ Ascending(combined_full.index)
       /\ Range(combined_full.index) = UNION {DOMAIN full_series[f] : f \in Funds}
       /\ \A d \in Range(combined_full.index) : \A f \in Funds :
             combined_full.data[d][f] =
                IF RealUpTo(f, d) = {} THEN NaN
                ELSE full_series[f][CHOOSE x \in RealUpTo(f, d) :
                                       \A y \in RealUpTo(f, d) : y <= x]

C9_Witness ==
    /\ Built
    /\ \E f \in Funds : \E d \in Range(combined_full.index) :
          /\ d \notin RealDates(f)
          /\ RealUpTo(f, d) # {}
          /\ combined_full.data[d][f] # NaN
    /\ \E f \in Funds : \E d \in Range(combined_full.index) :
          /\ RealUpTo(f, d) = {}
          /\ RealDates(f) # {}
          /\ combined_full.data[d][f] = NaN

\* C10: for every (label, anchor_date) whose anchor_date is strictly earlier
\* than the table's first date, period_returns records "not available" (NaN)
\* for every fund under that label.
C10_NoReturnBeforeHistory ==
    pc = "done" =>
       \A i \in 1..Len(periods_of(combined)) :
          LET label == periods_of(combined)[i][1]
              anchor == periods_of(combined)[i][2]
          IN anchor < combined.index[1] =>
                \A f \in Funds : returns_df.data[label][f] = NaN

C10_Witness ==
    /\ pc = "done"
    /\ combined.index[1] >= 2
    /\ Len(combined.index) >= 2
    /\ \E f \in Funds :
          /\ combined.data[combined.index[1]][f][1] > 0
          /\ combined.data[combined.index[Len(combined.index)]][f][1] > 0
          /\ returns_df.data[1][f] = NaN
          /\ returns_df.data[combined.index[1]][f] # NaN

\* the last row of combined whose date is <= anchor
AnchorRow(anchor) ==
    CHOOSE d \in Range(combined.index) :
       /\ d <= anchor
       /\ \A x \in Range(combined.index) : x <= anchor => x <= d

LastRow == CHOOSE d \in Range(combined.index) : \A x \in Range(combined.index) : x <= d

\* r is the float (l / p - 1) * 100 for table cells l and p
ExactReturn(r, l, p) ==
    IF l = NaN \/ p = NaN THEN r = NaN
    ELSE IF p[1] = 0 THEN r = (IF l[1] = 0 THEN NaN ELSE <<1, 0>>)
    ELSE r[2] > 0 /\ r[1] * p[1] = 100 * (l[1] - p[1]) * r[2]

\* r is (l / p - 1) * 100 rounded to 2 decimal places
RoundedReturn(r, l, p) ==
    IF l = NaN \/ p = NaN THEN r = NaN
    ELSE IF p[1] = 0 THEN r = (IF l[1] = 0 THEN NaN ELSE <<1, 0>>)
    ELSE /\ r[2] > 0
         /\ 100 % r[2] = 0
         /\ 200 * Abs(r[1] * p[1] - 100 * (l[1] - p[1]) * r[2]) <= p[1] * r[2]

\* C11 as stated: for every anchor_date not earlier than the table's first
\* date, price_start is the last row with date <= anchor_date, latest is the
\* last row, and the recorded value is (latest / price_start - 1) * 100.
C11_AsStated ==
    pc = "done" =>
       \A i \in 1..Len(periods_of(combined)) :
          LET label == periods_of(combined)[i][1]
              anchor == periods_of(combined)[i][2]
          IN anchor >= combined.index[1] =>
                \A f \in Funds :
                   ExactReturn(returns_df.data[label][f],
                               combined.data[LastRow][f],
                               combined.data[AnchorRow(anchor)][f])

\* C11 (amended): for every anchor_date not earlier than the table's first
\* date, price_start is the last row with date <= anchor_date (that date need
\* not be a row), latest is the last row, and the recorded value is
\* (latest / price_start - 1) * 100 rounded to 2 decimal places.
C11_ReturnAnchorRow ==
    pc = "done" =>
       \A i \in 1..Len(periods_of(combined)) :
          LET label == periods_of(combined)[i][1]
              anchor == periods_of(combined)[i][2]
          IN anchor >= combined.index[1] =>
                \A f \in Funds :
                   RoundedReturn(returns_df.data[label][f],
                                 combined.data[LastRow][f],
                                 combined.data[AnchorRow(anchor)][f])

C11_Witness ==
    /\ pc = "done"
    /\ \E i \in 1..Len(periods_of(combined)) :
          LET label == periods_of(combined)[i][1]
              anchor == periods_of(combined)[i][2]
          IN /\ anchor >= combined.index[1]
             /\ anchor \notin Range(combined.index)
             /\ AnchorRow(anchor) # LastRow
             /\ \E f \in Funds :
                   /\ combined.data[AnchorRow(anchor)][f][1] > 0
                   /\ combined.data[LastRow][f][1] > 0
                   /\ returns_df.data[label][f][2] = 100
                   /\ ~ExactReturn(returns_df.data[label][f],
                                   combined.data[LastRow][f],
                                   combined.data[AnchorRow(anchor)][f])

====
